---- MODULE Spec2Model ----
(***************************************************************************)
(* Change-making core of CoinSorter: greedy_make_change, dp_make_change,   *)
(* dp_make_change_opt and audit_canonical (src/src/coin_algorithms.c) over *)
(* CoinSystem values (src/include/coins.h, src/src/coin_systems.c).        *)
(*                                                                         *)
(* Doubles are modelled in fixed point: mass_g in 1/MassUnit g, and        *)
(* diameter_mm in 1/DiamUnit mm.  The 1e-12 tolerance of the weighted DP   *)
(* is below one fixed-point unit, so "less by more than 1e-12" is "less"   *)
(* and "equal within 1e-12" is "equal".                                    *)
(***************************************************************************)
EXTENDS Integers, Sequences, FiniteSets, TLC

VARIABLES sys, heap_ok, pc, op, amount, mode, status, counts,
          search_limit, ex_ptr, ex_amount, limit, amt, gcounts, dcounts,
          totals, caller

vars == <<sys, heap_ok, pc, op, amount, mode, status, counts,
          search_limit, ex_ptr, ex_amount, limit, amt, gcounts, dcounts,
          totals, caller>>

(* ------------------------------ bounds -------------------------------- *)

\* largest denomination value of a generated system
MaxValue == 4
\* largest number of denominations of a generated system
MaxCoins == 3
\* largest amount a solver is called with on a generated system
MaxAmount == 8
\* largest explicit search_limit handed to audit_canonical
MaxLimit == 7

(* --------------------------- program constants ------------------------ *)

OPT_COUNT == 0
OPT_MASS == 1
OPT_DIAMETER == 2
OPT_AREA == 3
USHRT_MAX == 65535
\* fixed-point units per 1.0 g and per 1.0 mm
MassUnit == 1000
DiamUnit == 100
\* dp[a].primary = 1e300 and dp[a].coins = 1e9 of an unfilled cell
PrimaryInf == 2000000000
CoinsInf == 1000000000
\* the self test's and the callers' largest amount for the usd system
SelfTestMax == 500
\* the amount the tests hand to dp_make_change_opt for the usd system
OptTestAmount == 137

Modes == {OPT_COUNT, OPT_MASS, OPT_DIAMETER, OPT_AREA}

(* ------------------------------ systems ------------------------------- *)

CoinSpec(v, m, d) == [value |-> v, mass_g |-> m, diameter_mm |-> d]

USD_COINS ==
  << CoinSpec(25, 5670, 2426), CoinSpec(10, 2268, 1791),
     CoinSpec(5, 5000, 2121), CoinSpec(1, 2500, 1905) >>

USD ==
  [system_name |-> "usd", coins |-> USD_COINS, smallest_unit |-> 1,
   canonical_hint |-> 1]

EUR_COINS ==
  << CoinSpec(200, 8500, 2575), CoinSpec(100, 7500, 2325),
     CoinSpec(50, 7800, 2425), CoinSpec(20, 5740, 2225),
     CoinSpec(10, 4100, 1975), CoinSpec(5, 3920, 2125),
     CoinSpec(2, 3060, 1875), CoinSpec(1, 2300, 1625) >>

CAD_COINS ==
  << CoinSpec(200, 6920, 2800), CoinSpec(100, 6270, 2650),
     CoinSpec(25, 4400, 2388), CoinSpec(10, 1750, 1803),
     CoinSpec(5, 3950, 2120), CoinSpec(1, 2350, 1905) >>

AUD_COINS ==
  << CoinSpec(200, 6600, 2050), CoinSpec(100, 9000, 2500),
     CoinSpec(50, 15550, 3165), CoinSpec(20, 11300, 2865),
     CoinSpec(10, 5650, 2360), CoinSpec(5, 2830, 1941) >>

NZD_COINS ==
  << CoinSpec(200, 10000, 2650), CoinSpec(100, 8000, 2300),
     CoinSpec(50, 5000, 2475), CoinSpec(20, 4000, 2175),
     CoinSpec(10, 3300, 2050) >>

CNY_COINS ==
  << CoinSpec(100, 6100, 2500), CoinSpec(50, 3800, 2050),
     CoinSpec(10, 1150, 1900) >>

CatalogEntry(name, coins) ==
  [system_name |-> name, coins |-> coins, smallest_unit |-> 1,
   canonical_hint |-> 0]

\* The static catalog, in its order.
SYSTEMS ==
  << USD, CatalogEntry("eur", EUR_COINS), CatalogEntry("cad", CAD_COINS),
     CatalogEntry("aud", AUD_COINS), CatalogEntry("nzd", NZD_COINS),
     CatalogEntry("cny", CNY_COINS) >>

\* The systems get_coin_system returns.
Catalog == { SYSTEMS[k] : k \in 1..Len(SYSTEMS) }

\* Metadata of a generated denomination of value v: known (a mass and a
\* diameter that depend on v) or unknown (0, as in coins.h).
MintSpec(v, known) ==
  IF known
    THEN CoinSpec(v, (MassUnit \div 2) * (1 + ((2 * v) % 3)),
                     DiamUnit * (1 + (v % 2)))
    ELSE CoinSpec(v, 0, 0)

\* The values of S in descending order.
RECURSIVE Descending(_)
Descending(S) ==
  IF S = {} THEN <<>>
  ELSE LET m == CHOOSE x \in S : \A y \in S : y <= x
       IN <<m>> \o Descending(S \ {m})

\* Generated systems: every non-empty set of at most MaxCoins values in
\* 1..MaxValue, strictly descending, each denomination with or without
\* metadata.  Systems without a unit denomination are included, as the
\* catalog has them (aud, nzd, cny).
TestSystems ==
  { [system_name |-> "test",
     coins |-> [i \in 1..Cardinality(S) |->
                  MintSpec(Descending(S)[i], i \in K)],
     smallest_unit |-> 1, canonical_hint |-> 0] :
      S \in { T \in SUBSET (1..MaxValue) :
                T # {} /\ Cardinality(T) <= MaxCoins },
      K \in SUBSET (1..MaxCoins) }

\* A system without a unit denomination in which greedy takes more coins
\* than needed at 10 and cannot reach 7, which 5 + 2 reaches.
NoUnitSystem ==
  [system_name |-> "test",
   coins |-> <<MintSpec(6, TRUE), MintSpec(5, TRUE), MintSpec(2, TRUE)>>,
   smallest_unit |-> 1, canonical_hint |-> 0]

Systems == TestSystems \cup {NoUnitSystem}

ncoins(s) == Len(s.coins)

Values(s) == [i \in 1..ncoins(s) |-> s.coins[i].value]

\* The amounts the callers hand to the solvers.
Amounts(s) ==
  IF s = USD THEN (-1)..SelfTestMax ELSE (-2)..MaxAmount

\* The amounts the callers hand to dp_make_change_opt.
OptAmounts(s) ==
  IF s = USD THEN (-1)..OptTestAmount ELSE (-2)..MaxAmount

SearchLimits == (-1)..MaxLimit

\* What an uninitialised int may hold.
UninitVals == {-1, 0}

Fill(n, u) == [i \in 1..n |-> u]

(* ------------------------- greedy_make_change ------------------------- *)

\* A division that rounds up.
CDiv_up(a, b) == IF a >= 0 THEN (a + b - 1) \div b ELSE -((-a) \div b)

\* C's int division truncates toward zero (b > 0).
CDiv(a, b) == IF a >= 0 THEN a \div b ELSE -((-a) \div b)

\* greedy_loop visiting the denominations from the last to the first.
RECURSIVE greedy_loop_rev(_, _, _, _)
greedy_loop_rev(s, i, rem, cnt) ==
  IF i > ncoins(s)
    THEN [status |-> IF rem = 0 THEN 0 ELSE -1, counts |-> cnt]
    ELSE LET k == ncoins(s) + 1 - i
             c == CDiv(rem, s.coins[k].value)
         IN greedy_loop_rev(s, i + 1, rem - c * s.coins[k].value,
                            [cnt EXCEPT ![k] = c])

\* greedy_loop starting at the second denomination.
RECURSIVE greedy_loop_mut(_, _, _, _)
greedy_loop_mut(s, i, rem, cnt) ==
  IF i > ncoins(s)
    THEN [status |-> IF rem = 0 THEN 0 ELSE -1, counts |-> cnt]
    ELSE IF i = 1 /\ ncoins(s) > 1
      THEN greedy_loop_mut(s, 2, rem, [cnt EXCEPT ![1] = 0])
      ELSE LET c == CDiv(rem, s.coins[i].value)
           IN greedy_loop_mut(s, i + 1, rem - c * s.coins[i].value,
                              [cnt EXCEPT ![i] = c])

RECURSIVE greedy_loop(_, _, _, _)
greedy_loop(s, i, rem, cnt) ==
  IF i > ncoins(s)
    THEN [status |-> IF rem = 0 THEN 0 ELSE -1, counts |-> cnt]
    ELSE LET c == CDiv(rem, s.coins[i].value)
         IN greedy_loop(s, i + 1, rem - c * s.coins[i].value,
                        [cnt EXCEPT ![i] = c])

\* greedy_make_change returning 0 whatever the remainder is.
greedy_make_change_mut(s, a, cnt) ==
  [greedy_loop(s, 1, a, cnt) EXCEPT !.status = 0]

greedy_make_change(s, a, cnt) == greedy_loop(s, 1, a, cnt)

(* --------------------------- dp_make_change --------------------------- *)

\* dp_inner taking the first denomination that reaches amount a instead of
\* one that lowers best[a].
RECURSIVE dp_inner_mut(_, _, _, _, _)
dp_inner_mut(s, tbl, a, i, cell) ==
  IF i > ncoins(s) THEN cell
  ELSE LET v == s.coins[i].value
       IN IF v <= a /\ tbl[a - v + 1].best + 1 <= a
               /\ cell.last = USHRT_MAX
            THEN dp_inner_mut(s, tbl, a, i + 1,
                              [best |-> tbl[a - v + 1].best + 1,
                               last |-> i - 1])
            ELSE dp_inner_mut(s, tbl, a, i + 1, cell)

\* dp_inner taking every denomination that reaches amount a, so the last.
RECURSIVE dp_inner_last(_, _, _, _, _)
dp_inner_last(s, tbl, a, i, cell) ==
  IF i > ncoins(s) THEN cell
  ELSE LET v == s.coins[i].value
       IN IF v <= a /\ tbl[a - v + 1].best + 1 <= a
            THEN dp_inner_last(s, tbl, a, i + 1,
                               [best |-> tbl[a - v + 1].best + 1,
                                last |-> i - 1])
            ELSE dp_inner_last(s, tbl, a, i + 1, cell)

\* The inner loop over the denominations for amount a.  tbl[b + 1] is the
\* cell (best[b], last[b]) of amount b < a; cell is (best[a], last[a]).
\* last holds the C (0-based) index.
RECURSIVE dp_inner(_, _, _, _, _)
dp_inner(s, tbl, a, i, cell) ==
  IF i > ncoins(s) THEN cell
  ELSE LET v == s.coins[i].value
       IN IF v <= a /\ tbl[a - v + 1].best + 1 < cell.best
            THEN dp_inner(s, tbl, a, i + 1,
                          [best |-> tbl[a - v + 1].best + 1, last |-> i - 1])
            ELSE dp_inner(s, tbl, a, i + 1, cell)

\* The fill loop for a = lo..hi, in increasing order of a: every cell is
\* computed from the cells of all smaller amounts.  The range is split in
\* halves, the lower half filled first (left has the cells 0..mid), only to
\* keep the evaluation's nesting shallow.
RECURSIVE dp_fill(_, _, _, _, _)
dp_fill(s, maxC, tbl, lo, hi) ==
  IF lo > hi THEN tbl
  ELSE IF lo = hi
    THEN Append(tbl, dp_inner(s, tbl, lo, 1,
                              [best |-> maxC, last |-> USHRT_MAX]))
    ELSE LET mid == (lo + hi) \div 2
             left == dp_fill(s, maxC, tbl, lo, mid)
         IN IF Len(left) = mid + 1
              THEN dp_fill(s, maxC, left, mid + 1, hi) ELSE left

\* dp_table with maxC = amount instead of amount + 1.
dp_table_mut(s, a_max) ==
  dp_fill(s, a_max, <<[best |-> 0, last |-> USHRT_MAX]>>, 1, a_max)

\* best[] and last[] after the fill loop, for amounts 0..a_max.
dp_table(s, a_max) ==
  dp_fill(s, a_max + 1, <<[best |-> 0, last |-> USHRT_MAX]>>, 1, a_max)

\* dp_walk whose loop runs while a > 1 instead of a > 0.
RECURSIVE dp_walk_mut(_, _, _, _)
dp_walk_mut(s, tbl, a, cnt) ==
  IF a <= 1 THEN cnt
  ELSE LET idx == tbl[a + 1].last
       IN IF idx = USHRT_MAX THEN cnt
          ELSE dp_walk_mut(s, tbl, a - s.coins[idx + 1].value,
                           [cnt EXCEPT ![idx + 1] = @ + 1])

RECURSIVE dp_walk(_, _, _, _)
dp_walk(s, tbl, a, cnt) ==
  IF a <= 0 THEN cnt
  ELSE LET idx == tbl[a + 1].last
       IN IF idx = USHRT_MAX THEN cnt
          ELSE dp_walk(s, tbl, a - s.coins[idx + 1].value,
                       [cnt EXCEPT ![idx + 1] = @ + 1])

\* dp_make_change testing best[amount] > maxC instead of >= maxC.
dp_make_change_mut(s, a, cnt, heap) ==
  IF a < 0 THEN [status |-> -1, counts |-> cnt]
  ELSE IF ~heap THEN [status |-> -1, counts |-> cnt]
  ELSE LET tbl == dp_table(s, a)
       IN IF tbl[a + 1].best > a + 1
            THEN [status |-> -1, counts |-> cnt]
            ELSE [status |-> 0,
                  counts |-> dp_walk(s, tbl, a, Fill(ncoins(s), 0))]

dp_make_change(s, a, cnt, heap) ==
  IF a < 0 THEN [status |-> -1, counts |-> cnt]
  ELSE IF ~heap THEN [status |-> -1, counts |-> cnt]
  ELSE LET tbl == dp_table(s, a)
       IN IF tbl[a + 1].best >= a + 1
            THEN [status |-> -1, counts |-> cnt]
            ELSE [status |-> 0,
                  counts |-> dp_walk(s, tbl, a, Fill(ncoins(s), 0))]

(* ------------------------- dp_make_change_opt ------------------------- *)

\* 1.0 mm^2 in the unit of the area weights, (pi/4) / DiamUnit^2 mm^2,
\* with pi taken as 355/113.
AreaOne == (4 * DiamUnit * DiamUnit * 113) \div 355

\* opt_weight with the fallback weight -1.0, the sentinel of the totals.
opt_weight_mut(c, m) ==
  LET w == IF m = OPT_MASS THEN c.mass_g
           ELSE IF m = OPT_DIAMETER THEN c.diameter_mm
           ELSE IF c.diameter_mm > 0
                  THEN c.diameter_mm * c.diameter_mm ELSE 0
      one == IF m = OPT_MASS THEN MassUnit
             ELSE IF m = OPT_DIAMETER THEN DiamUnit ELSE AreaOne
  IN IF w <= 0 THEN -one ELSE w

\* The weight w of denomination c under a mode other than OPT_COUNT.
opt_weight(c, m) ==
  LET w == IF m = OPT_MASS THEN c.mass_g
           ELSE IF m = OPT_DIAMETER THEN c.diameter_mm
           ELSE IF c.diameter_mm > 0
                  THEN c.diameter_mm * c.diameter_mm ELSE 0
      one == IF m = OPT_MASS THEN MassUnit
             ELSE IF m = OPT_DIAMETER THEN DiamUnit ELSE AreaOne
  IN IF w <= 0 THEN one ELSE w

\* opt_better comparing the coin counts first.
opt_better_coins_first(cand_p, cand_c, cell) ==
  IF cand_c < cell.coins THEN TRUE
  ELSE cand_c = cell.coins /\ cand_p < cell.primary

\* opt_better taking a candidate of equal weight whatever its coin count.
opt_better_ties(cand_p, cand_c, cell) ==
  cand_p <= cell.primary

\* Whether the candidate (cand_p, cand_c) replaces the cell.
opt_better(cand_p, cand_c, cell) ==
  IF cand_p < cell.primary THEN TRUE
  ELSE cand_p = cell.primary /\ cand_c < cell.coins

\* opt_inner passing over the denominations whose metadata is unknown.
RECURSIVE opt_inner_known(_, _, _, _, _, _)
opt_inner_known(s, m, tbl, a, i, cell) ==
  IF i > ncoins(s)
    THEN IF cell.last = -1 THEN [cell EXCEPT !.last = -3] ELSE cell
  ELSE LET v == s.coins[i].value
           q == IF m = OPT_MASS THEN s.coins[i].mass_g
                ELSE s.coins[i].diameter_mm
       IN IF v <= a /\ tbl[a - v + 1].last # -3 /\ q > 0
            THEN LET cand_p == tbl[a - v + 1].primary
                                 + opt_weight(s.coins[i], m)
                     cand_c == tbl[a - v + 1].coins + 1
                 IN IF opt_better(cand_p, cand_c, cell)
                      THEN opt_inner_known(s, m, tbl, a, i + 1,
                                           [primary |-> cand_p,
                                            coins |-> cand_c,
                                            last |-> i - 1])
                      ELSE opt_inner_known(s, m, tbl, a, i + 1, cell)
            ELSE opt_inner_known(s, m, tbl, a, i + 1, cell)

\* opt_inner whose candidate weight leaves out the weight of dp[a - v].
RECURSIVE opt_inner_mut(_, _, _, _, _, _)
opt_inner_mut(s, m, tbl, a, i, cell) ==
  IF i > ncoins(s)
    THEN IF cell.last = -1 THEN [cell EXCEPT !.last = -3] ELSE cell
  ELSE LET v == s.coins[i].value
       IN IF v <= a /\ tbl[a - v + 1].last # -3
            THEN LET cand_p == opt_weight(s.coins[i], m)
                     cand_c == tbl[a - v + 1].coins + 1
                 IN IF opt_better(cand_p, cand_c, cell)
                      THEN opt_inner_mut(s, m, tbl, a, i + 1,
                                         [primary |-> cand_p,
                                          coins |-> cand_c, last |-> i - 1])
                      ELSE opt_inner_mut(s, m, tbl, a, i + 1, cell)
            ELSE opt_inner_mut(s, m, tbl, a, i + 1, cell)

RECURSIVE opt_inner(_, _, _, _, _, _)
opt_inner(s, m, tbl, a, i, cell) ==
  IF i > ncoins(s)
    THEN IF cell.last = -1 THEN [cell EXCEPT !.last = -3] ELSE cell
  ELSE LET v == s.coins[i].value
       IN IF v <= a /\ tbl[a - v + 1].last # -3
            THEN LET cand_p == tbl[a - v + 1].primary
                                 + opt_weight(s.coins[i], m)
                     cand_c == tbl[a - v + 1].coins + 1
                 IN IF opt_better(cand_p, cand_c, cell)
                      THEN opt_inner(s, m, tbl, a, i + 1,
                                     [primary |-> cand_p, coins |-> cand_c,
                                      last |-> i - 1])
                      ELSE opt_inner(s, m, tbl, a, i + 1, cell)
            ELSE opt_inner(s, m, tbl, a, i + 1, cell)

RECURSIVE opt_fill(_, _, _, _, _)
opt_fill(s, m, tbl, lo, hi) ==
  IF lo > hi THEN tbl
  ELSE IF lo = hi
    THEN Append(tbl, opt_inner(s, m, tbl, lo, 1,
                               [primary |-> PrimaryInf, coins |-> CoinsInf,
                                last |-> -1]))
    ELSE LET mid == (lo + hi) \div 2
             left == opt_fill(s, m, tbl, lo, mid)
         IN IF Len(left) = mid + 1
              THEN opt_fill(s, m, left, mid + 1, hi) ELSE left

\* dp[] after the fill loop, for amounts 0..a_max.
opt_table(s, m, a_max) ==
  opt_fill(s, m, <<[primary |-> 0, coins |-> 0, last |-> -2]>>, 1, a_max)

RECURSIVE opt_walk(_, _, _, _)
opt_walk(s, tbl, a, cnt) ==
  IF a <= 0 THEN cnt
  ELSE LET idx == tbl[a + 1].last
       IN opt_walk(s, tbl, a - s.coins[idx + 1].value,
                   [cnt EXCEPT ![idx + 1] = @ + 1])

\* dp_make_change_opt running its own table for OPT_COUNT as well.
dp_make_change_opt_mut(s, a, cnt, m, heap, junk) ==
  IF ~heap \/ a < 0 THEN [status |-> -1, counts |-> cnt]
  ELSE LET tbl == opt_table(s, m, a)
       IN IF tbl[a + 1].last < 0
            THEN [status |-> -1, counts |-> cnt]
            ELSE [status |-> 0,
                  counts |-> opt_walk(s, tbl, a, Fill(ncoins(s), 0))]

\* junk is what dp[-1].last reads as when amount = -1: malloc(0) gave a
\* block of no cells, dp[0] is written past it and dp[amount] read before it.
\* For amount < -1 the size (amount + 1) * sizeof(Cell) wraps to a huge
\* size_t and malloc returns NULL.
dp_make_change_opt(s, a, cnt, m, heap, junk) ==
  IF m = OPT_COUNT THEN dp_make_change(s, a, cnt, heap)
  ELSE IF ~heap \/ a < -1 THEN [status |-> -1, counts |-> cnt]
  ELSE IF a = -1
    THEN IF junk < 0 THEN [status |-> -1, counts |-> cnt]
         ELSE [status |-> 0, counts |-> Fill(ncoins(s), 0)]
  ELSE LET tbl == opt_table(s, m, a)
       IN IF tbl[a + 1].last < 0
            THEN [status |-> -1, counts |-> cnt]
            ELSE [status |-> 0,
                  counts |-> opt_walk(s, tbl, a, Fill(ncoins(s), 0))]

(* --------------------------- audit_canonical -------------------------- *)

RECURSIVE SumSeq(_)
SumSeq(q) == IF q = <<>> THEN 0 ELSE Head(q) + SumSeq(Tail(q))

\* audit_limit without the clamp of a negative search_limit.
audit_limit_mut(s, sl) ==
  IF sl = 0
    THEN LET max1 == s.coins[1].value
             max2 == IF ncoins(s) > 1 THEN s.coins[2].value ELSE max1
         IN max1 * max2
    ELSE sl

\* The effective bound of the scan.
audit_limit(s, sl) ==
  LET l == IF sl < 0 THEN 0 ELSE sl
  IN IF l = 0
       THEN LET max1 == s.coins[1].value
                max2 == IF ncoins(s) > 1 THEN s.coins[2].value ELSE max1
            IN max1 * max2
       ELSE l

\* audit_body summing gcounts into both totals.
audit_body_mut(s, a, g, d, heap) ==
  LET g2 == greedy_make_change(s, a, g).counts
      d2 == dp_make_change(s, a, d, heap).counts
  IN [gcounts |-> g2, dcounts |-> d2, gc |-> SumSeq(g2), dc |-> SumSeq(g2)]

\* One pass of the loop body at amount a: the two buffers after the two
\* solver calls, whose return values are not looked at, and the totals.
audit_body(s, a, g, d, heap) ==
  LET g2 == greedy_make_change(s, a, g).counts
      d2 == dp_make_change(s, a, d, heap).counts
  IN [gcounts |-> g2, dcounts |-> d2, gc |-> SumSeq(g2), dc |-> SumSeq(d2)]

(* ------------------- total_mass, total_diameter, total_area ----------- *)

\* The -1.0 the three functions return when have stayed 0, in the unit of
\* the quantity (one is that unit's 1.0).
Unknown(one) == -one

\* total_mass, the loop from denomination i on: mass and have so far.
RECURSIVE total_mass_loop(_, _, _, _, _)
total_mass_loop(s, cnt, i, mass, have) ==
  IF i > ncoins(s) THEN (IF have THEN mass ELSE Unknown(MassUnit))
  ELSE IF s.coins[i].mass_g > 0
    THEN total_mass_loop(s, cnt, i + 1,
                         mass + s.coins[i].mass_g * cnt[i], TRUE)
    ELSE total_mass_loop(s, cnt, i + 1, mass, have)

\* total_mass setting have only for a denomination that is used.
total_mass_mut(s, cnt) ==
  IF \E i \in 1..ncoins(s) : s.coins[i].mass_g > 0 /\ cnt[i] > 0
    THEN total_mass_loop(s, cnt, 1, 0, FALSE)
    ELSE Unknown(MassUnit)

total_mass(s, cnt) == total_mass_loop(s, cnt, 1, 0, FALSE)

RECURSIVE total_diameter_loop(_, _, _, _, _)
total_diameter_loop(s, cnt, i, sum, have) ==
  IF i > ncoins(s) THEN (IF have THEN sum ELSE Unknown(DiamUnit))
  ELSE IF s.coins[i].diameter_mm > 0
    THEN total_diameter_loop(s, cnt, i + 1,
                             sum + s.coins[i].diameter_mm * cnt[i], TRUE)
    ELSE total_diameter_loop(s, cnt, i + 1, sum, have)

total_diameter(s, cnt) == total_diameter_loop(s, cnt, 1, 0, FALSE)

\* The area M_PI * r * r of a coin is d * d in the unit of AreaOne.
RECURSIVE total_area_loop(_, _, _, _, _)
total_area_loop(s, cnt, i, sum, have) ==
  IF i > ncoins(s) THEN (IF have THEN sum ELSE Unknown(AreaOne))
  ELSE LET d == s.coins[i].diameter_mm
       IN IF d > 0
            THEN total_area_loop(s, cnt, i + 1, sum + (d * d) * cnt[i], TRUE)
            ELSE total_area_loop(s, cnt, i + 1, sum, have)

total_area(s, cnt) == total_area_loop(s, cnt, 1, 0, FALSE)

(* ------------------------------ actions ------------------------------- *)

\* The functions that solve a request: main of coinsorter.c, main of
\* superforce_main.c, do_coin_change of superforce_ui.c and solve_change of
\* superforce_ncui.c.
Callers == {"main", "superforce_main", "do_coin_change", "solve_change"}

\* The amounts a caller solves: main (parse_int), do_coin_change and
\* solve_change take no negative one, superforce_main takes what atoi gives.
CallerAmounts(c) ==
  IF c = "superforce_main" THEN (-1)..MaxAmount ELSE 0..MaxAmount

TypeOK ==
  /\ pc \in {"idle", "audit"}
  /\ op \in {"none", "greedy", "dp", "opt", "audit"}
  /\ heap_ok \in BOOLEAN
  /\ mode \in Modes
  /\ status \in {-1, 0, 1}
  /\ Len(counts) = ncoins(sys)
  /\ Len(totals) \in {0, 3}
  /\ caller \in Callers \cup {"none"}

\* A caller's fresh request: a counts buffer (calloc'ed, zeroed or left
\* uninitialised) and int ex = -1.
Fresh(s, u) ==
  /\ sys = s
  /\ pc = "idle"
  /\ op = "none"
  /\ amount = 0
  /\ mode = OPT_COUNT
  /\ status = 0
  /\ counts = Fill(ncoins(s), u)
  /\ search_limit = 0
  /\ ex_ptr = TRUE
  /\ ex_amount = -1
  /\ limit = 0
  /\ amt = 0
  /\ gcounts = <<>>
  /\ dcounts = <<>>
  /\ totals = <<>>
  /\ caller = "none"

Init ==
  /\ heap_ok = TRUE
  /\ \E s \in Systems, u \in UninitVals : Fresh(s, u)

InitUSD ==
  /\ heap_ok = TRUE
  /\ \E u \in UninitVals : Fresh(USD, u)

NoAudit ==
  UNCHANGED <<search_limit, ex_ptr, ex_amount, limit, amt, gcounts, dcounts>>

Greedy ==
  /\ pc = "idle" /\ op = "none"
  /\ \E a \in Amounts(sys) :
       LET r == greedy_make_change(sys, a, counts)
       IN /\ op' = "greedy"
          /\ amount' = a
          /\ status' = r.status
          /\ counts' = r.counts
  /\ UNCHANGED <<sys, heap_ok, pc, mode, totals, caller>>
  /\ NoAudit

Dp ==
  /\ pc = "idle" /\ op = "none"
  /\ \E a \in Amounts(sys) :
       LET r == dp_make_change(sys, a, counts, heap_ok)
       IN /\ op' = "dp"
          /\ amount' = a
          /\ status' = r.status
          /\ counts' = r.counts
  /\ UNCHANGED <<sys, heap_ok, pc, mode, totals, caller>>
  /\ NoAudit

DpOpt ==
  /\ pc = "idle" /\ op = "none"
  /\ \E a \in OptAmounts(sys), m \in Modes :
     \E junk \in IF a = -1 /\ m # OPT_COUNT THEN UninitVals ELSE {0} :
       LET r == dp_make_change_opt(sys, a, counts, m, heap_ok, junk)
       IN /\ op' = "opt"
          /\ amount' = a
          /\ mode' = m
          /\ status' = r.status
          /\ counts' = r.counts
  /\ UNCHANGED <<sys, heap_ok, pc, totals, caller>>
  /\ NoAudit

\* audit_canonical up to the loop: the bound and the two work buffers,
\* which malloc leaves uninitialised.
AuditCall(sl, ep, gu, du) ==
  /\ search_limit' = sl
  /\ ex_ptr' = ep
  /\ limit' = audit_limit(sys, sl)
  /\ IF heap_ok
       THEN /\ pc' = "audit"
            /\ amt' = 1
            /\ gcounts' = Fill(ncoins(sys), gu)
            /\ dcounts' = Fill(ncoins(sys), du)
            /\ UNCHANGED <<op, status>>
       ELSE /\ op' = "audit"
            /\ status' = 0
            /\ UNCHANGED <<pc, amt, gcounts, dcounts>>
  /\ UNCHANGED <<sys, heap_ok, amount, mode, counts, ex_amount, totals,
                 caller>>

AuditBegin ==
  /\ pc = "idle" /\ op = "none"
  /\ \E sl \in SearchLimits, ep \in BOOLEAN, gu \in UninitVals,
        du \in UninitVals : AuditCall(sl, ep, gu, du)

\* One test of the loop condition: a pass of the body, or the return.
AuditStep ==
  /\ pc = "audit"
  /\ IF amt <= limit
       THEN LET b == audit_body(sys, amt, gcounts, dcounts, heap_ok)
            IN IF b.gc > b.dc
                 THEN /\ ex_amount' = IF ex_ptr THEN amt ELSE ex_amount
                      /\ pc' = "idle"
                      /\ op' = "audit"
                      /\ status' = 0
                      /\ gcounts' = <<>>
                      /\ dcounts' = <<>>
                      /\ UNCHANGED amt
                 ELSE /\ amt' = amt + 1
                      /\ gcounts' = b.gcounts
                      /\ dcounts' = b.dcounts
                      /\ UNCHANGED <<pc, op, status, ex_amount>>
       ELSE /\ pc' = "idle"
            /\ op' = "audit"
            /\ status' = 1
            /\ gcounts' = <<>>
            /\ dcounts' = <<>>
            /\ UNCHANGED <<amt, ex_amount>>
  /\ UNCHANGED <<sys, heap_ok, amount, mode, counts, search_limit, ex_ptr,
                 limit, totals, caller>>

\* The caller reports the totals of the count vector a solver returned for
\* its amount >= 0: <<total_mass, total_diameter, total_area>>.
\* superforce_main does so whatever the solver returned.
Totals ==
  /\ pc = "idle" /\ op \in {"greedy", "dp", "opt"}
  /\ IF caller = "superforce_main" THEN TRUE ELSE status = 0 /\ amount >= 0
  /\ totals = <<>>
  /\ totals' = <<total_mass(sys, counts), total_diameter(sys, counts),
                 total_area(sys, counts)>>
  /\ UNCHANGED <<sys, heap_ok, pc, op, amount, mode, status, counts,
                 caller>>
  /\ NoAudit

\* The caller starts its next request.
NewRequest ==
  /\ pc = "idle" /\ op # "none"
  /\ \E u \in UninitVals : counts' = Fill(ncoins(sys), u)
  /\ op' = "none"
  /\ amount' = 0
  /\ mode' = OPT_COUNT
  /\ status' = 0
  /\ search_limit' = 0
  /\ ex_ptr' = TRUE
  /\ ex_amount' = -1
  /\ limit' = 0
  /\ amt' = 0
  /\ totals' = <<>>
  /\ UNCHANGED <<sys, heap_ok, pc, gcounts, dcounts, caller>>

Next ==
  Greedy \/ Dp \/ DpOpt \/ Totals \/ AuditBegin \/ AuditStep \/ NewRequest

Spec == Init /\ [][Next]_vars

SpecUSD == InitUSD /\ [][Next]_vars

\* malloc may fail: the scratch tables of the solvers and the work buffers
\* of audit_canonical are not obtained.
InitHeap ==
  /\ heap_ok \in BOOLEAN
  /\ \E s \in Systems, u \in UninitVals : Fresh(s, u)

SpecHeap == InitHeap /\ [][Next]_vars

(* ------------------------------ callers ------------------------------- *)

\* A caller takes up a request: the system it looked up in the catalog, a
\* zeroed counts buffer, the amount and the objective.
CallerEnter ==
  /\ caller = "none" /\ pc = "idle" /\ op = "none"
  /\ \E c \in Callers, m \in Modes :
     \E a \in CallerAmounts(c) :
       /\ caller' = c
       /\ amount' = a
       /\ mode' = m
  /\ counts' = Fill(ncoins(sys), 0)
  /\ UNCHANGED <<sys, heap_ok, pc, op, status, totals>>
  /\ NoAudit

\* main and superforce_main start from the hint and spot-check it:
\* audit_canonical(sys, amount > 500 ? 500 : amount, &ex).
CallerAudit ==
  /\ caller \in {"main", "superforce_main"}
  /\ pc = "idle" /\ op = "none"
  /\ sys.canonical_hint = 1
  /\ \E gu \in UninitVals, du \in UninitVals :
       AuditCall(IF amount > SelfTestMax THEN SelfTestMax ELSE amount,
                 TRUE, gu, du)

\* Whether the caller takes the greedy path; status is the audit's result
\* where the caller has audited.
use_greedy ==
  IF caller \in {"main", "superforce_main"}
    THEN sys.canonical_hint = 1 /\ status = 1 /\ mode = OPT_COUNT
    ELSE IF caller = "do_coin_change"
      THEN mode = OPT_COUNT /\ sys.canonical_hint = 1
      ELSE FALSE

\* The caller's one solver call.
CallerSolve ==
  /\ caller # "none" /\ pc = "idle"
  /\ IF caller \in {"main", "superforce_main"} /\ sys.canonical_hint = 1
       THEN op = "audit" ELSE op = "none"
  /\ \E junk \in IF amount = -1 /\ mode # OPT_COUNT THEN UninitVals ELSE {0} :
       LET r == IF mode # OPT_COUNT
                  THEN dp_make_change_opt(sys, amount, counts, mode, heap_ok,
                                          junk)
                  ELSE IF use_greedy
                    THEN greedy_make_change(sys, amount, counts)
                    ELSE dp_make_change(sys, amount, counts, heap_ok)
       IN /\ op' = IF mode # OPT_COUNT THEN "opt"
                   ELSE IF use_greedy THEN "greedy" ELSE "dp"
          /\ status' = r.status
          /\ counts' = r.counts
  /\ UNCHANGED <<sys, heap_ok, pc, amount, mode, totals, caller>>
  /\ NoAudit

\* The caller is done with the request.
CallerReturn ==
  /\ caller # "none" /\ pc = "idle"
  /\ op \in {"greedy", "dp", "opt"}
  /\ caller' = "none"
  /\ \E u \in UninitVals : counts' = Fill(ncoins(sys), u)
  /\ op' = "none"
  /\ amount' = 0
  /\ mode' = OPT_COUNT
  /\ status' = 0
  /\ search_limit' = 0
  /\ ex_ptr' = TRUE
  /\ ex_amount' = -1
  /\ limit' = 0
  /\ amt' = 0
  /\ totals' = <<>>
  /\ UNCHANGED <<sys, heap_ok, pc, gcounts, dcounts>>

InitCallers ==
  /\ heap_ok = TRUE
  /\ \E s \in Catalog, u \in UninitVals : Fresh(s, u)

NextCallers ==
  \/ CallerEnter \/ CallerAudit \/ AuditStep \/ CallerSolve \/ Totals
  \/ CallerReturn

SpecCallers == InitCallers /\ [][NextCallers]_vars

(* ------------------------- what the claims use ------------------------ *)

Solvers == {"greedy", "dp", "opt"}

\* sum of counts[i] * value[i]
SumValue(s, c) == SumSeq([i \in 1..ncoins(s) |-> c[i] * s.coins[i].value])

\* All vectors of non-negative counts for the denominations i..ncoins that
\* sum to rem, by enumeration.
RECURSIVE ValidVectors(_, _, _)
ValidVectors(s, i, rem) ==
  IF i > ncoins(s) THEN (IF rem = 0 THEN {<<>>} ELSE {})
  ELSE UNION { { <<k>> \o t :
                   t \in ValidVectors(s, i + 1, rem - k * s.coins[i].value) } :
               k \in 0..(rem \div s.coins[i].value) }

Representable(s, a) == ValidVectors(s, 1, a) # {}

\* The least total coin count of a vector that sums to a (a representable).
MinCount(s, a) ==
  LET T == { SumSeq(c) : c \in ValidVectors(s, 1, a) }
  IN CHOOSE t \in T : \A x \in T : t <= x

HasUnit(s) == \E i \in 1..ncoins(s) : s.coins[i].value = 1

(* -------------------------------- C1 ---------------------------------- *)

\* C1: whenever greedy_make_change, dp_make_change or dp_make_change_opt (in
\* any mode) returns 0 for an amount >= 0, the counts it wrote are all >= 0
\* and sum over i of counts[i] * value[i] is the amount.
C1_ValueConservation ==
  (op \in Solvers /\ amount >= 0 /\ status = 0) =>
     /\ \A i \in 1..ncoins(sys) : counts[i] >= 0
     /\ SumValue(sys, counts) = amount

\* A weighted solve of a non-canonical system has succeeded on an amount
\* that takes several coins.
C1_Witness ==
  /\ op = "opt" /\ mode = OPT_MASS /\ status = 0
  /\ Values(sys) = <<4, 3, 1>> /\ amount = 6
  /\ SumValue(sys, counts) = 6

(* -------------------------------- C2 ---------------------------------- *)

\* C2: whenever dp_make_change returns 0 for an amount >= 0, the total
\* number of coins of its result is the minimum over all vectors of
\* non-negative counts that sum to the amount.
C2_MinCount ==
  (op = "dp" /\ amount >= 0 /\ status = 0) =>
     SumSeq(counts) = MinCount(sys, amount)

\* dp_make_change has answered an amount at which greedy takes more coins.
C2_Witness ==
  /\ op = "dp" /\ status = 0 /\ amount = 6
  /\ Values(sys) = <<4, 3, 1>>
  /\ SumSeq(counts) = 2
  /\ SumSeq(greedy_make_change(sys, 6, counts).counts) = 3

(* -------------------------------- C3 ---------------------------------- *)

\* C3: for an amount >= 0 (the tables allocated), dp_make_change fails if
\* and only if no vector of non-negative counts sums to the amount; with a
\* denomination of value 1 it succeeds for every amount >= 0.
C3_DpFailsIffInfeasible ==
  (op = "dp" /\ amount >= 0 /\ heap_ok) =>
     /\ (status # 0) <=> ~Representable(sys, amount)
     /\ HasUnit(sys) => status = 0

\* dp_make_change has failed on an amount that no combination reaches, in a
\* system that reaches larger amounts.
C3_Witness ==
  /\ op = "dp" /\ status = -1 /\ amount = 5
  /\ Values(sys) = <<4, 3>>

(* -------------------------------- C4 ---------------------------------- *)

\* C4: with amount = 0 every solver (greedy_make_change, dp_make_change,
\* dp_make_change_opt under each objective) returns success and yields the
\* all-zero count vector.
C4_ZeroCase ==
  (op \in Solvers /\ amount = 0) =>
     (status = 0 /\ counts = Fill(ncoins(sys), 0))

(* -------------------------------- C5 ---------------------------------- *)

\* C5: a call of any solver entry point with amount < 0 returns an error
\* and writes no counts.
C5_NegativeRejected ==
  [][(op = "none" /\ op' \in Solvers /\ amount' < 0) =>
        (status' # 0 /\ counts' = counts)]_vars
(* ------------------------------ C6, C7 -------------------------------- *)

Zeros(s) == Fill(ncoins(s), 0)

\* greedy_make_change and dp_make_change, each called on its own for
\* amount a, report equal total coin counts: both fail, or both succeed with
\* vectors of the same total.
AgreeAt(s, a) ==
  LET g == greedy_make_change(s, a, Zeros(s))
      d == dp_make_change(s, a, Zeros(s), TRUE)
  IN /\ g.status = d.status
     /\ d.status = 0 => SumSeq(g.counts) = SumSeq(d.counts)

\* greedy's total exceeds dp_make_change's total at amount a.
GreedyExceedsAt(s, a) ==
  LET g == greedy_make_change(s, a, Zeros(s))
      d == dp_make_change(s, a, Zeros(s), TRUE)
  IN d.status = 0 /\ SumSeq(g.counts) > SumSeq(d.counts)

AuditReturned == pc = "idle" /\ op = "audit"

\* C6: if audit_canonical returns 1 for a system (with or without a unit
\* denomination) and effective bound B, then for every amount in 1..B
\* greedy_make_change and dp_make_change report equal total coin counts.
C6_CanonicalSound ==
  (AuditReturned /\ status = 1) =>
     \A a \in 1..limit : AgreeAt(sys, a)

\* C7: if audit_canonical returns 0 and stores k in *ex_amount, greedy's
\* total at k exceeds dp_make_change's total at k and the totals are equal
\* for every amount in 1..k-1; *ex_amount is left unwritten when the result
\* is Canonical.
C7_NonCanonicalSound ==
  /\ (AuditReturned /\ status = 0 /\ heap_ok /\ ex_ptr) =>
        /\ ex_amount \in 1..limit
        /\ GreedyExceedsAt(sys, ex_amount)
        /\ \A a \in 1..(ex_amount - 1) : AgreeAt(sys, a)
  /\ (AuditReturned /\ status = 1) => ex_amount = -1
(* -------------------------------- C8 ---------------------------------- *)

\* The bound of the scan as documented: search_limit when it is > 0, else
\* the product of the two largest values (the square of the only one).
DocumentedBound(s, sl) ==
  IF sl > 0 THEN sl
  ELSE s.coins[1].value
         * (IF ncoins(s) = 1 THEN s.coins[1].value ELSE s.coins[2].value)

\* C8: audit_canonical scans the amounts 1, 2, ... in steps of one up to
\* v0 * v1 (v0 * v0 for a single denomination) when search_limit is 0 or
\* negative, and up to search_limit when it is > 0: it returns 1 only past
\* the bound and 0 only at an amount within it.
C8_AuditBound ==
  [][/\ (pc = "idle" /\ pc' = "audit") =>
          (limit' = DocumentedBound(sys, search_limit') /\ amt' = 1)
     /\ (pc = "audit" /\ pc' = "audit") =>
          (amt <= limit /\ amt' = amt + 1 /\ limit' = limit)
     /\ (pc = "audit" /\ pc' = "idle") =>
          /\ limit' = limit /\ amt' = amt
          /\ status' = 1 => amt = limit + 1
          /\ status' = 0 => amt \in 1..limit]_vars

\* An audit called with search_limit 0 has scanned all of 1..12 = 1..4*3.
C8_Witness ==
  /\ AuditReturned /\ status = 1 /\ search_limit = 0
  /\ Values(sys) = <<4, 3>>
  /\ limit = 12 /\ amt = 13

(* -------------------------------- C9 ---------------------------------- *)

\* C9: for the system {4,3,1} and amount 6, greedy_make_change yields
\* {1,0,2}, dp_make_change yields {0,2,0}, and audit_canonical with any bound
\* >= 6 (the default bound 12 of search_limit 0 included) returns 0 with
\* first counterexample 6.
C9_NonCanonicalScenario ==
  Values(sys) = <<4, 3, 1>> =>
     /\ (op = "greedy" /\ amount = 6) =>
           (status = 0 /\ counts = <<1, 0, 2>>)
     /\ (op = "dp" /\ amount = 6) =>
           (status = 0 /\ counts = <<0, 2, 0>>)
     /\ (AuditReturned /\ limit >= 6) =>
           (status = 0 /\ (ex_ptr => ex_amount = 6))
     /\ (AuditReturned /\ search_limit = 0) => limit = 12

\* The audit of {4,3,1} with the default bound has returned 0 at 6.
C9_Witness ==
  /\ Values(sys) = <<4, 3, 1>>
  /\ AuditReturned /\ search_limit = 0 /\ limit = 12
  /\ status = 0 /\ ex_ptr /\ ex_amount = 6

(* -------------------------------- C10 --------------------------------- *)

\* C10: for the usd system {25,10,5,1}, greedy_make_change and
\* dp_make_change return element-wise identical count vectors for every
\* amount in 0..500; for amount 137 both return {5,1,0,2}.
C10_UsdGreedyEqualsDp ==
  (Values(sys) = <<25, 10, 5, 1>> /\ amount \in 0..SelfTestMax) =>
     /\ op = "dp" =>
          LET g == greedy_make_change(sys, amount, counts)
          IN status = 0 /\ g.status = 0 /\ counts = g.counts
     /\ (op \in {"greedy", "dp"} /\ amount = 137) =>
          (status = 0 /\ counts = <<5, 1, 0, 2>>)

\* dp_make_change has answered 499 for usd, the self test's largest sample.
C10_Witness ==
  /\ sys = USD /\ op = "dp" /\ amount = 499 /\ status = 0
  /\ counts = <<19, 2, 0, 4>>

(* -------------------------------- C11 --------------------------------- *)

\* C11: the catalog system whose canonical_hint is 1 (usd) is reported
\* Canonical by audit_canonical with search_limit 0, whose bound is
\* 250 = 25 * 10: greedy_make_change takes the least number of coins for
\* every amount in 1..250.
C11_HintedSystemCanonical ==
  sys.canonical_hint = 1 =>
     /\ (AuditReturned /\ search_limit = 0 /\ heap_ok) =>
           (status = 1 /\ limit = 250)
     /\ (op = "greedy" /\ amount \in 1..250) =>
           (status = 0 /\ SumSeq(counts) = MinCount(sys, amount))

\* The audit of usd with search_limit 0 has gone through all of 1..250.
C11_Witness ==
  /\ sys = USD /\ AuditReturned /\ search_limit = 0
  /\ status = 1 /\ limit = 250 /\ amt = 251 /\ ex_amount = -1

(* -------------------------------- C12 --------------------------------- *)

\* C12: for every system and every amount >= 0 at which both
\* greedy_make_change and dp_make_change succeed, the total coin count of
\* dp_make_change's result is <= that of greedy_make_change's result.
C12_DpNotWorseThanGreedy ==
  /\ (op = "dp" /\ amount >= 0 /\ status = 0) =>
        LET g == greedy_make_change(sys, amount, Zeros(sys))
        IN g.status = 0 => SumSeq(counts) <= SumSeq(g.counts)
  /\ (op = "greedy" /\ amount >= 0 /\ status = 0) =>
        LET d == dp_make_change(sys, amount, Zeros(sys), heap_ok)
        IN d.status = 0 => SumSeq(d.counts) <= SumSeq(counts)

\* greedy_make_change has answered an amount for which dp_make_change takes
\* strictly fewer coins.
C12_Witness ==
  /\ op = "greedy" /\ amount >= 0 /\ status = 0
  /\ LET d == dp_make_change(sys, amount, Zeros(sys), heap_ok)
     IN d.status = 0 /\ SumSeq(d.counts) < SumSeq(counts)

(* ------------------------------ C13, C14 ------------------------------ *)

\* The weight of denomination c under mode m as documented: the mass, the
\* diameter or the area, and 1 when that metadata is <= 0.
DocWeight(c, m) ==
  IF m = OPT_MASS THEN (IF c.mass_g > 0 THEN c.mass_g ELSE MassUnit)
  ELSE IF m = OPT_DIAMETER
    THEN (IF c.diameter_mm > 0 THEN c.diameter_mm ELSE DiamUnit)
    ELSE (IF c.diameter_mm > 0 THEN c.diameter_mm * c.diameter_mm
          ELSE AreaOne)

\* sum of c[i] * w[i]
TotalWeight(s, c, m) ==
  SumSeq([i \in 1..ncoins(s) |-> c[i] * DocWeight(s.coins[i], m)])

\* The least total weight of a vector that sums to a (a representable).
MinWeight(s, a, m) ==
  LET T == { TotalWeight(s, c, m) : c \in ValidVectors(s, 1, a) }
  IN CHOOSE t \in T : \A x \in T : t <= x

WeightedSolved ==
  op = "opt" /\ mode # OPT_COUNT /\ status = 0 /\ amount >= 0

\* C13: for mode OPT_MASS, OPT_DIAMETER or OPT_AREA and every amount >= 0
\* for which dp_make_change_opt returns 0, the total weight of its result
\* is the minimum over all vectors of non-negative counts that sum to the
\* amount.
C13_WeightedOptimal ==
  WeightedSolved =>
     /\ counts \in ValidVectors(sys, 1, amount)
     /\ TotalWeight(sys, counts, mode) = MinWeight(sys, amount, mode)

\* A weighted solve has returned a vector with more coins than the least
\* count, because it weighs less.
C13_Witness ==
  /\ WeightedSolved
  /\ SumSeq(counts) > MinCount(sys, amount)
  /\ \E c \in ValidVectors(sys, 1, amount) :
        /\ SumSeq(c) = MinCount(sys, amount)
        /\ TotalWeight(sys, c, mode) > TotalWeight(sys, counts, mode)

\* The candidates (weight, coins) of the cell of amount a: one for each
\* denomination v <= a whose cell a - v is reachable.
Candidates(s, m, a) ==
  LET tbl == opt_table(s, m, a)
  IN { << tbl[a - s.coins[i].value + 1].primary + DocWeight(s.coins[i], m),
          tbl[a - s.coins[i].value + 1].coins + 1 >> :
         i \in { k \in 1..ncoins(s) :
                   /\ s.coins[k].value <= a
                   /\ tbl[a - s.coins[k].value + 1].last # -3 } }

\* C14: in dp_make_change_opt a candidate of strictly lower weight replaces
\* the cell even if it uses more coins, and one of equal weight only if it
\* uses fewer coins: the cell of the amount is the candidate of the least
\* weight and, among those, of the fewest coins.  So among the vectors of
\* the minimal total weight the returned one has the least total coin count.
C14_TieBreak ==
  (WeightedSolved /\ amount > 0) =>
     /\ LET cell == opt_table(sys, mode, amount)[amount + 1]
        IN /\ <<cell.primary, cell.coins>> \in Candidates(sys, mode, amount)
           /\ \A k \in Candidates(sys, mode, amount) :
                 \/ cell.primary < k[1]
                 \/ cell.primary = k[1] /\ cell.coins <= k[2]
     /\ \A c \in ValidVectors(sys, 1, amount) :
           TotalWeight(sys, c, mode) = MinWeight(sys, amount, mode)
              => SumSeq(counts) <= SumSeq(c)

\* A weighted solve has returned the vector of the fewer coins of two that
\* have the same, minimal, weight.
C14_Witness ==
  /\ WeightedSolved /\ amount > 0
  /\ \E c \in ValidVectors(sys, 1, amount) :
        /\ TotalWeight(sys, c, mode) = TotalWeight(sys, counts, mode)
        /\ SumSeq(c) > SumSeq(counts)

(* -------------------------------- C15 --------------------------------- *)

TotalsTaken == Len(totals) = 3

MassDefined(s) == \A i \in 1..ncoins(s) : s.coins[i].mass_g > 0

DiameterDefined(s) == \A i \in 1..ncoins(s) : s.coins[i].diameter_mm > 0

\* The vector dp_make_change_opt returns under OPT_COUNT for amount a.
CountResult(s, a) ==
  dp_make_change_opt(s, a, Zeros(s), OPT_COUNT, TRUE, 0)

\* C15: for every system whose mass metadata is fully defined and every
\* amount for which both calls succeed, total_mass of the result of
\* dp_make_change_opt under OPT_MASS is <= total_mass of its result under
\* OPT_COUNT; likewise total_diameter under OPT_DIAMETER and total_area
\* under OPT_AREA for fully defined diameters.
C15_ObjectiveMonotone ==
  (TotalsTaken /\ op = "opt" /\ CountResult(sys, amount).status = 0) =>
     LET c == CountResult(sys, amount).counts
     IN /\ (mode = OPT_MASS /\ MassDefined(sys)) =>
              totals[1] <= total_mass(sys, c)
        /\ (mode = OPT_DIAMETER /\ DiameterDefined(sys)) =>
              totals[2] <= total_diameter(sys, c)
        /\ (mode = OPT_AREA /\ DiameterDefined(sys)) =>
              totals[3] <= total_area(sys, c)

\* The result under OPT_MASS weighs strictly less than the result under
\* OPT_COUNT for the same amount.
C15_Witness ==
  /\ TotalsTaken /\ op = "opt" /\ mode = OPT_MASS /\ MassDefined(sys)
  /\ CountResult(sys, amount).status = 0
  /\ totals[1] < total_mass(sys, CountResult(sys, amount).counts)

(* -------------------------------- C16 --------------------------------- *)

\* C16: dp_make_change_opt with OPT_COUNT returns what dp_make_change
\* returns for the same system and amount: the same status and, on success,
\* the same count vector, which is one of the least total coin count.
C16_CountModeIsDp ==
  (op = "opt" /\ mode = OPT_COUNT) =>
     LET d == dp_make_change(sys, amount, counts, heap_ok)
     IN /\ status = d.status
        /\ status = 0 =>
              (counts = d.counts /\ SumSeq(counts) = MinCount(sys, amount))

\* dp_make_change_opt under OPT_COUNT has answered amount 0, and an amount
\* that takes two coins.
C16_Witness ==
  /\ op = "opt" /\ mode = OPT_COUNT /\ status = 0
  /\ Values(sys) = <<4, 3, 1>> /\ amount = 6 /\ counts = <<0, 2, 0>>

(* ------------------------------ C17, C18 ------------------------------ *)

\* sum of q[i] * c[i] over the denominations with q[i] > 0
KnownSum(q, c) ==
  SumSeq([i \in 1..Len(q) |-> IF q[i] > 0 THEN q[i] * c[i] ELSE 0])

Masses(s) == [i \in 1..ncoins(s) |-> s.coins[i].mass_g]

Diameters(s) == [i \in 1..ncoins(s) |-> s.coins[i].diameter_mm]

Areas(s) ==
  [i \in 1..ncoins(s) |->
     IF s.coins[i].diameter_mm > 0
       THEN s.coins[i].diameter_mm * s.coins[i].diameter_mm ELSE 0]

NoneKnown(q) == \A i \in 1..Len(q) : q[i] <= 0

\* The metric r of quantity q is the sentinel exactly when q is known for
\* no denomination, and else the sum of the known terms.
MetricOK(r, q, one) ==
  /\ (r = -one) <=> NoneKnown(q)
  /\ ~NoneKnown(q) => r = KnownSum(q, counts)

C18_AnyUnknownGivesSentinel ==
  TotalsTaken =>
     /\ ~MassDefined(sys) => totals[1] = -MassUnit
     /\ ~DiameterDefined(sys) => totals[2] = -DiamUnit

(* -------------------------------- C19 --------------------------------- *)

\* C19: whenever greedy_make_change, dp_make_change or dp_make_change_opt
\* returns failure, the caller's counts buffer holds the values it held
\* before the call.
C19_NoPartialOutput ==
  [][(op = "none" /\ op' \in Solvers /\ status' # 0) =>
        counts' = counts]_vars

(* -------------------------------- C20 --------------------------------- *)

\* What the solver of the returned call reports for an amount that no
\* combination reaches (1 in a system without a unit denomination).
InfeasibleAmountStatus ==
  dp_make_change_opt(NoUnitSystem, 1, Zeros(NoUnitSystem),
                     mode, TRUE, 0).status

\* C20: a call of dp_make_change or dp_make_change_opt whose allocation of
\* the scratch table fails returns a value that differs from the one
\* returned for an infeasible amount.
C20_AllocFailureDistinct ==
  (op \in {"dp", "opt"} /\ amount >= 0 /\ ~heap_ok) =>
     status # InfeasibleAmountStatus

(* -------------------------------- C21 --------------------------------- *)

\* What audit_canonical returns at a found counterexample.
NonCanonical == 0

\* C21: when audit_canonical cannot allocate its work buffers, what it
\* returns differs from the value it returns for a found counterexample.
C21_AuditAllocFailureDistinct ==
  (AuditReturned /\ ~heap_ok) => status # NonCanonical

(* -------------------------------- C22 --------------------------------- *)

StrictlyDescending(s) ==
  \A i \in 1..(ncoins(s) - 1) : s.coins[i].value > s.coins[i + 1].value

\* C22: every system of the static catalog lists its denominations strictly
\* descending by value and has a denomination whose value is the smallest
\* unit, so that dp_make_change succeeds for every amount >= 0.
C22_CatalogInvariant ==
  sys \in Catalog =>
     /\ StrictlyDescending(sys)
     /\ \E i \in 1..ncoins(sys) : sys.coins[i].value = sys.smallest_unit
     /\ (op = "dp" /\ amount >= 0 /\ heap_ok) => status = 0

(* -------------------------------- C23 --------------------------------- *)

\* What the solver of the returned call gives for the same system, amount
\* and mode when the output buffer holds u and the memory it reads without
\* having written it holds j.
Recall(u, j) ==
  IF op = "greedy"
    THEN greedy_make_change(sys, amount, Fill(ncoins(sys), u))
    ELSE IF op = "dp"
      THEN dp_make_change(sys, amount, Fill(ncoins(sys), u), heap_ok)
      ELSE dp_make_change_opt(sys, amount, Fill(ncoins(sys), u), mode,
                              heap_ok, j)

\* C23: two calls of the same solver with the same system and amount return
\* the same status and, on success, identical count vectors, whatever the
\* output buffer held before and whatever was called in between.
C23_Deterministic ==
  op \in Solvers =>
     \A u \in UninitVals, j \in UninitVals :
        /\ Recall(u, j).status = status
        /\ status = 0 => Recall(u, j).counts = counts

(* -------------------------------- C24 --------------------------------- *)

\* C24: in every caller a call of greedy_make_change is preceded, in the
\* same request, by a call of audit_canonical on the system that returned
\* 1; canonical_hint alone never selects the greedy path.
C24_AuditBeforeGreedy ==
  [][(op # "greedy" /\ op' = "greedy") =>
        (AuditReturned /\ status = 1)]_vars

(* -------------------------------- C25 --------------------------------- *)

\* All vectors of non-negative counts for the denominations i..ncoins whose
\* value does not exceed rem.
RECURSIVE BoundedVectors(_, _, _)
BoundedVectors(s, i, rem) ==
  IF i > ncoins(s) THEN {<<>>}
  ELSE UNION { { <<k>> \o t :
                   t \in BoundedVectors(s, i + 1,
                                        rem - k * s.coins[i].value) } :
               k \in 0..(rem \div s.coins[i].value) }

\* c comes before d or is d, in lexicographic order.
RECURSIVE LexLeq(_, _)
LexLeq(c, d) ==
  IF c = <<>> THEN TRUE
  ELSE IF Head(c) # Head(d) THEN Head(c) < Head(d)
  ELSE LexLeq(Tail(c), Tail(d))

\* C25: for amount >= 0 greedy_make_change stores, in index order,
\* counts[i] = floor(remaining / value[i]) with remaining lowered by
\* counts[i] * value[i], and returns 0 if and only if the final remainder is
\* 0; its vector is the lexicographically largest one whose value does not
\* exceed the amount.
C25_GreedyContract ==
  (op = "greedy" /\ amount >= 0) =>
     /\ \A i \in 1..ncoins(sys) :
           LET before == amount - SumSeq([k \in 1..(i - 1) |->
                                           counts[k] * sys.coins[k].value])
           IN /\ counts[i] * sys.coins[i].value <= before
              /\ before < (counts[i] + 1) * sys.coins[i].value
     /\ (status = 0) <=> (amount - SumValue(sys, counts) = 0)
     /\ counts \in BoundedVectors(sys, 1, amount)
     /\ \A c \in BoundedVectors(sys, 1, amount) : LexLeq(c, counts)

\* greedy_make_change has failed with a remainder, after taking coins.
C25_Witness ==
  /\ op = "greedy" /\ amount = 6 /\ Values(sys) = <<4, 3>>
  /\ status = -1 /\ counts = <<1, 0>>

(* -------------------------------- C26 --------------------------------- *)

\* C26: for every system and amount >= 0 greedy_make_change fails only
\* when no combination of the denominations sums to the amount: whenever
\* dp_make_change succeeds for the amount, greedy succeeds with a valid
\* vector.
C26_GreedyFeasible ==
  (op = "greedy" /\ amount >= 0) =>
     /\ status # 0 => ~Representable(sys, amount)
     /\ dp_make_change(sys, amount, Zeros(sys), TRUE).status = 0 =>
           (status = 0 /\ counts \in ValidVectors(sys, 1, amount))

\* C26 as amended: for every system that has a denomination of value 1 and
\* every amount >= 0, greedy_make_change succeeds with a valid (possibly
\* non-minimal) vector; in any system, when it succeeds its vector is valid
\* and dp_make_change succeeds for the amount too.
C26_GreedyFeasibleWithUnit ==
  (op = "greedy" /\ amount >= 0) =>
     /\ HasUnit(sys) => status = 0
     /\ status = 0 =>
           /\ counts \in ValidVectors(sys, 1, amount)
           /\ dp_make_change(sys, amount, Zeros(sys), TRUE).status = 0

\* greedy_make_change has succeeded, with a valid vector of more coins than
\* needed, in a system with a unit denomination.
C26_Witness ==
  /\ op = "greedy" /\ amount >= 0 /\ status = 0 /\ HasUnit(sys)
  /\ counts \in ValidVectors(sys, 1, amount)
  /\ SumSeq(counts) > MinCount(sys, amount)

(* -------------------------------- C27 --------------------------------- *)

Indexes(s) == 0..(ncoins(s) - 1)

\* Cell a of the table of dp_make_change for amount n is marked unreachable,
\* or holds best <= a and a denomination of value <= a whose predecessor
\* cell is reachable with one coin less.
DpCellOK(s, tbl, a, n) ==
  LET c == tbl[a + 1]
  IN \/ c.best = n + 1 /\ c.last = USHRT_MAX
     \/ /\ c.best <= a
        /\ c.last \in Indexes(s)
        /\ s.coins[c.last + 1].value <= a
        /\ LET p == tbl[a - s.coins[c.last + 1].value + 1]
           IN p.best # n + 1 /\ p.best = c.best - 1

\* The same for a cell of dp_make_change_opt.
OptCellOK(s, tbl, a) ==
  LET c == tbl[a + 1]
  IN \/ c.last = -3
     \/ /\ c.coins <= a
        /\ c.last \in Indexes(s)
        /\ s.coins[c.last + 1].value <= a
        /\ LET p == tbl[a - s.coins[c.last + 1].value + 1]
           IN p.last # -3 /\ p.coins = c.coins - 1

\* The number of steps the backpointer walk takes from a down to exactly 0,
\* or -1 if it reads a cell without a denomination index or steps below 0.
RECURSIVE WalkSteps(_, _, _)
WalkSteps(s, tbl, a) ==
  IF a = 0 THEN 0
  ELSE IF a < 0 \/ tbl[a + 1].last \notin Indexes(s) THEN -1
  ELSE LET r == WalkSteps(s, tbl, a - s.coins[tbl[a + 1].last + 1].value)
       IN IF r < 0 THEN -1 ELSE r + 1

\* C27: after the fill loop of dp_make_change, and of dp_make_change_opt,
\* every cell a in 1..amount is either marked unreachable or holds
\* best[a] <= a and an index i with value[i] <= a whose predecessor cell is
\* reachable with best[a] - 1; so on success the walk from amount reads only
\* reachable cells and valid indexes, never steps below 0 and ends at 0
\* after best[amount] steps.
C27_TableWellFormed ==
  /\ (op = "dp" /\ amount >= 0 /\ heap_ok) =>
        LET tbl == dp_table(sys, amount)
        IN /\ \A a \in 1..amount : DpCellOK(sys, tbl, a, amount)
           /\ status = 0 =>
                 /\ WalkSteps(sys, tbl, amount) = tbl[amount + 1].best
                 /\ SumSeq(counts) = tbl[amount + 1].best
  /\ (op = "opt" /\ mode # OPT_COUNT /\ amount >= 0 /\ heap_ok) =>
        LET tbl == opt_table(sys, mode, amount)
        IN /\ \A a \in 1..amount : OptCellOK(sys, tbl, a)
           /\ status = 0 =>
                 /\ WalkSteps(sys, tbl, amount) = tbl[amount + 1].coins
                 /\ SumSeq(counts) = tbl[amount + 1].coins

\* dp_make_change has succeeded on a table that has unreachable cells.
C27_Witness ==
  /\ op = "dp" /\ status = 0 /\ amount = 7 /\ Values(sys) = <<4, 3>>
  /\ dp_table(sys, 7)[6] = [best |-> 8, last |-> USHRT_MAX]
  /\ WalkSteps(sys, dp_table(sys, 7), 7) = 2

(* -------------------------------- C28 --------------------------------- *)

\* What the loop of audit_canonical returns from amount a on, for the bound
\* lim and the buffers g and d.
RECURSIVE AuditVerdict(_, _, _, _, _)
AuditVerdict(s, lim, a, g, d) ==
  IF a > lim THEN 1
  ELSE LET b == audit_body(s, a, g, d, TRUE)
       IN IF b.gc > b.dc THEN 0
          ELSE AuditVerdict(s, lim, a + 1, b.gcounts, b.dcounts)

\* C28: what audit_canonical returns depends only on the system and the
\* bound, whatever its work buffers held at first, and an amount at which
\* greedy_make_change or dp_make_change fails is never reported as the
\* counterexample.
C28_AuditIgnoresGarbage ==
  (AuditReturned /\ heap_ok) =>
     /\ \A gu \in UninitVals, du \in UninitVals :
           AuditVerdict(sys, limit, 1, Fill(ncoins(sys), gu),
                        Fill(ncoins(sys), du)) = status
     /\ (status = 0 /\ ex_ptr) =>
           /\ greedy_make_change(sys, ex_amount, Zeros(sys)).status = 0
           /\ dp_make_change(sys, ex_amount, Zeros(sys), TRUE).status = 0

(* -------------------------------- C29 --------------------------------- *)

\* The metadata the mode weighs.
Quantity(s, m) == IF m = OPT_MASS THEN Masses(s) ELSE Diameters(s)

\* C29: for every system and every amount >= 1, dp_make_change_opt under
\* OPT_MASS, OPT_DIAMETER or OPT_AREA succeeds exactly when dp_make_change
\* succeeds, that is when some combination sums to the amount.
C29_FeasibilityAnyObjective ==
  (op = "opt" /\ mode # OPT_COUNT /\ amount >= 1 /\ heap_ok) =>
     /\ (status = 0) <=>
           (dp_make_change(sys, amount, Zeros(sys), TRUE).status = 0)
     /\ (status = 0) <=> Representable(sys, amount)

\* A weighted solve has succeeded with a denomination of unknown metadata,
\* in a system without a unit denomination.
C29_Witness ==
  /\ op = "opt" /\ mode # OPT_COUNT /\ amount >= 1 /\ status = 0
  /\ ~HasUnit(sys) /\ ~Representable(sys, 1)
  /\ \E i \in 1..ncoins(sys) :
        counts[i] > 0 /\ Quantity(sys, mode)[i] <= 0

(* -------------------------------- C30 --------------------------------- *)

\* 1.0 in the unit of the weights of the mode.
One(m) ==
  IF m = OPT_MASS THEN MassUnit
  ELSE IF m = OPT_DIAMETER THEN DiamUnit ELSE AreaOne

\* C30: in a system in which no denomination has metadata > 0 for the
\* objective every denomination gets weight exactly 1, so for every feasible
\* amount >= 1 the result of dp_make_change_opt under OPT_MASS,
\* OPT_DIAMETER or OPT_AREA has the total coin count of dp_make_change's
\* result.
C30_FallbackCountMinimal ==
  (op = "opt" /\ mode # OPT_COUNT /\ amount >= 1 /\ heap_ok
     /\ NoneKnown(Quantity(sys, mode))) =>
     LET d == dp_make_change(sys, amount, Zeros(sys), TRUE)
     IN /\ status = d.status
        /\ status = 0 =>
              /\ SumSeq(counts) = SumSeq(d.counts)
              /\ \A i \in 1..ncoins(sys) :
                    opt_weight(sys.coins[i], mode) = One(mode)
              /\ opt_table(sys, mode, amount)[amount + 1].primary
                    = SumSeq(counts) * One(mode)

\* A weighted solve of a system without metadata has returned the two
\* coins of the least count where greedy takes three.
C30_Witness ==
  /\ op = "opt" /\ mode = OPT_AREA /\ status = 0
  /\ NoneKnown(Diameters(sys))
  /\ Values(sys) = <<4, 3, 1>> /\ amount = 6 /\ SumSeq(counts) = 2

====
